---- MODULE Spec2Model ----
(***************************************************************************)
(* Model of pkg/provider/github/status.go: the GitHub provider's status    *)
(* reporting.  Provider.CreateStatus selects between the check-run API     *)
(* (getOrUpdateCheckRunStatus) and the commit-status API                   *)
(* (createStatusCommit).  Every call of CreateStatus is a process; every   *)
(* call to the hosting service, to the cluster (PatchPipelineRun) and      *)
(* every access to the shared v.skippedRun is one step.                    *)
(*                                                                         *)
(* Three specifications share the actions:                                 *)
(*   Spec       NProcs concurrent CreateStatus calls on one Provider, over *)
(*              the requests that decide the control flow (Requests);      *)
(*   SpecSeq    one CreateStatus call over the full request domain         *)
(*              (AllRequests): every phase, outcome, text and event kind;  *)
(*   SpecClaim  1..MaxCallers concurrent calls of canIUseCheckrunID on a   *)
(*              fresh Provider with pairwise distinct candidate ids.       *)
(***************************************************************************)
EXTENDS Integers, Sequences, FiniteSets, TLC

\* ---------------------------------------------------------------- bounds
\* concurrent CreateStatus calls in Spec
NProcs == 2
\* concurrent canIUseCheckrunID calls in SpecClaim
MaxCallers == 3
\* check runs already on the commit when the Provider is constructed
MaxInitChecks == 2
\* identifier of the first check run of the commit; later ones count up
FirstCheckID == 9

AllProcs == 1 .. (IF NProcs > MaxCallers THEN NProcs ELSE MaxCallers)

\* "no value": a nil pointer, an absent label, an unset option
Nil == "<nil>"

\* ------------------------------------------------------- strconv (strings
\* are sequences of one-character strings)
Digits == <<"0", "1", "2", "3", "4", "5", "6", "7", "8", "9">>

IsDigit(c) == \E d \in 1 .. 10 : Digits[d] = c

DigitVal(c) == (CHOOSE d \in 1 .. 10 : Digits[d] = c) - 1

RECURSIVE DigitsValue(_)
DigitsValue(s) ==
    IF Len(s) = 0 THEN 0
    ELSE DigitsValue(SubSeq(s, 1, Len(s) - 1)) * 10 + DigitVal(s[Len(s)])

\* strconv.Atoi: an optional sign, then at least one decimal digit
Atoi(s) ==
    LET signed == Len(s) > 0 /\ s[1] \in {"+", "-"}
        body   == IF signed THEN SubSeq(s, 2, Len(s)) ELSE s
        valid  == Len(body) > 0 /\ \A i \in 1 .. Len(body) : IsDigit(body[i])
    IN  IF ~valid THEN [ok |-> FALSE, val |-> 0]
        ELSE [ok |-> TRUE,
              val |-> IF signed /\ s[1] = "-" THEN 0 - DigitsValue(body)
                      ELSE DigitsValue(body)]

RECURSIVE NatToStr(_)
NatToStr(n) ==
    IF n < 10 THEN <<Digits[n + 1]>>
    ELSE NatToStr(n \div 10) \o <<Digits[(n % 10) + 1]>>

\* strconv.FormatInt(n, 10)
FormatInt(n) == IF n < 0 THEN <<"-">> \o NatToStr(0 - n) ELSE NatToStr(n)

\* ------------------------------------------------------------ data model
RunNames == {"run-a", "run-b"}

\* pacopts.ApplicationName
ApplicationName == "Pipelines as Code CI"

\* the summary ConclusionMapper gives a skipped commit, and the phrase
\* isSkippedCheckrun looks for in a summary
SkippedSummary == "is skipping this commit."

\* the value of the check-run-id label of a run object: GetLabels()[key]
NoLabel == [found |-> FALSE, id |-> <<>>]

Label(s) == [found |-> TRUE, id |-> s]

\* statusOpts.PipelineRun: a nil pointer, or the caller's copy of the run
NilRun == [present |-> FALSE, cancelled |-> FALSE, label |-> NoLabel]

\* a nil *int64
NilID == 0

\* a nil error; an error is the pieces of its message
NoError == <<>>

\* the caller's arguments before CreateStatus has started
NoRequest ==
    [InstallationID |-> 0, EventType |-> "", ErrorDetection |-> FALSE,
     Status |-> "", Conclusion |-> "", Text |-> "", Title |-> "",
     Summary |-> <<>>, OriginalPipelineRunName |-> "",
     PipelineRunName |-> "", PipelineRun |-> NilRun]

\* requests of Spec, the ones that decide the control flow: both modes, a run
\* object or none, both run names; run-a reports a skipped commit (its check
\* becomes a "Skipped" one), run-b a success
Requests ==
    { [NoRequest EXCEPT !.InstallationID = 1, !.EventType = "push",
                        !.Status = "completed",
                        !.Conclusion = IF n = "run-a" THEN "skipped"
                                       ELSE "success",
                        !.PipelineRunName = n,
                        !.PipelineRun = [NilRun EXCEPT !.present = pr]] :
        n \in RunNames, pr \in BOOLEAN }
    \cup
    { [NoRequest EXCEPT !.InstallationID = 0, !.EventType = "pull_request",
                        !.Status = "completed", !.Conclusion = "success",
                        !.Text = "log", !.PipelineRunName = "run-a"] }

Statuses == {"queued", "in_progress", "completed"}

Conclusions ==
    {"", "success", "failure", "skipped", "neutral", "pending", "cancelled"}

\* requests of SpecSeq, all for run-a (the commit's check runs may be run-a's
\* or run-b's).  A field the selected mode never reads keeps one value.
AllRequests ==
    { [NoRequest EXCEPT !.InstallationID = i, !.EventType = "push",
                        !.ErrorDetection = d, !.Status = s, !.Conclusion = c,
                        !.PipelineRunName = "run-a",
                        !.PipelineRun = [NilRun EXCEPT !.present = pr[1],
                                                       !.cancelled = pr[2]]] :
        i \in {1}, d \in BOOLEAN, s \in Statuses, c \in Conclusions,
        pr \in {<<FALSE, FALSE>>, <<TRUE, FALSE>>, <<TRUE, TRUE>>} }
    \cup
    { [NoRequest EXCEPT !.InstallationID = i, !.EventType = e,
                        !.Status = s, !.Conclusion = c, !.Text = t,
                        !.PipelineRunName = "run-a"] :
        i \in {0 - 1, 0}, e \in {"push", "pull_request"}, s \in Statuses,
        c \in Conclusions, t \in {"", "log"} }

\* a check run of the commit as ListCheckRunsForRef returns it
CheckRun(id, ext, title, summary) ==
    [ID |-> id, ExternalID |-> ext, Title |-> title, Summary |-> summary]

\* the check runs the commit can carry when the Provider is constructed:
\* identifiers FirstCheckID, FirstCheckID + 1, ...; each the check of one of
\* the runs, left "Skipped" or "Success" by an earlier Provider
RECURSIVE InitialLists(_)
InitialLists(k) ==
    IF k = 0 THEN {<<>>}
    ELSE LET shorter == InitialLists(k - 1)
         IN  shorter \cup
             { Append(l, CheckRun(FirstCheckID + Len(l), n, t[1], <<ApplicationName, "", " ", t[2]>>)) :
                 l \in {m \in shorter : Len(m) = k - 1}, n \in RunNames,
                 t \in {<<"Skipped", SkippedSummary>>,
                        <<"Success", "has <b>successfully</b> validated your commit.">>} }

\* one call made to the hosting service or to the cluster, as logged per
\* CreateStatus call: the operation, the check identifier it targets or
\* returns, whether it succeeded, and what it submitted
NoCall ==
    [op |-> "", id |-> NilID, ok |-> TRUE, status |-> Nil, conclusion |-> Nil,
     completedAt |-> FALSE, externalID |-> Nil, label |-> <<>>,
     extractor |-> FALSE, consulted |-> FALSE, taskinfos |-> <<>>,
     annotations |-> <<>>, body |-> <<>>]

\* ------------------------------------------- getFailuresMessageAsAnnotations
\* lines of log snippet given to one run of the annotation extractor
MaxLogLines == 1

\* what the capture group "line" of a matched log line can hold
LineCaptures ==
    {<<"4", "2">>, <<"0">>, <<"-", "3">>, <<"N", "/", "A">>, <<>>}

\* one line of a log snippet as pacopts.ErrorDetectionSimpleRegexp sees it:
\* whether it matches, and what the named groups capture (the file name as
\* pieces, "./" being one; the line as characters)
ErrLine(m, f, l) ==
    [matched |-> m, filename |-> f, line |-> l, error |-> "undefined: x"]

ErrLines ==
    {ErrLine(FALSE, <<>>, <<>>), ErrLine(TRUE, <<"./", "main.go">>, <<"4", "2">>)}
    \cup {ErrLine(TRUE, <<"main.go">>, l) : l \in LineCaptures \ {<<"4", "2">>}}

\* the snippets of the failed tasks, as the sequence of their lines
RECURSIVE LogSnippets(_)
LogSnippets(k) ==
    IF k = 0 THEN {<<>>}
    ELSE LET shorter == LogSnippets(k - 1)
         IN  shorter \cup {Append(l, e) : l \in {m \in shorter : Len(m) = k - 1},
                                          e \in ErrLines}

GroupNames == {"filename", "line", "error"}

\* pacopts.ErrorDetectionSimpleRegexp (whether it compiles, and its named
\* groups), whether the Kubernetes client could be made, and the snippets
\* CollectFailedTasksLogSnippet returns
LogInput(c, names, k, t) ==
    [compiles |-> c, names |-> names, kube |-> k, taskinfos |-> t]

NoLogInput == LogInput(TRUE, GroupNames, TRUE, <<>>)

LogInputs ==
    {LogInput(TRUE, GroupNames, TRUE, t) : t \in LogSnippets(MaxLogLines)}
    \cup {LogInput(c, GroupNames \ n, k,
                   <<ErrLine(TRUE, <<"main.go">>, <<"4", "2">>)>>) :
             c \in BOOLEAN, k \in BOOLEAN,
             n \in SUBSET GroupNames \ {{}}}

\* line 148: strings.TrimPrefix(filename, "./")
TrimPrefix(filename) ==
    IF Len(filename) > 0 /\ Head(filename) = "./" THEN Tail(filename)
    ELSE filename

\* lines 129-175: the annotation of one log line, if it gives one
AnnotationsOfLine(names, errline) ==
    IF ~errline.matched THEN <<>>
    ELSE IF "filename" \notin names THEN <<>>
    ELSE IF "line" \notin names THEN <<>>
    ELSE IF "error" \notin names THEN <<>>
    ELSE LET ilinenumber == Atoi(errline.line)
         IN  IF ~ilinenumber.ok THEN <<>>
             ELSE <<[Path |-> TrimPrefix(errline.filename),
                     StartLine |-> ilinenumber.val,
                     EndLine |-> ilinenumber.val,
                     AnnotationLevel |-> "failure",
                     Message |-> errline.error]>>

\* lines 128-176: the loop over the lines of the snippets
RECURSIVE AnnotationsOf(_, _)
AnnotationsOf(names, taskinfos) ==
    IF Len(taskinfos) = 0 THEN <<>>
    ELSE AnnotationsOfLine(names, Head(taskinfos))
         \o AnnotationsOf(names, Tail(taskinfos))

\* lines 117-127: the log source is reached once the regexp has compiled and
\* the Kubernetes client is there
LogSourceConsulted(in) == in.compiles /\ in.kube

\* getFailuresMessageAsAnnotations, lines 115-178
getFailuresMessageAsAnnotations(in) ==
    IF LogSourceConsulted(in) THEN AnnotationsOf(in.names, in.taskinfos)
    ELSE <<>>

\* ----------------------------------------------------------------- state
VARIABLES
    Client,      \* v.Client is set (a token was configured)
    skippedRun,  \* v.skippedRun: checkRunID, and mutex (0 free, else holder)
    checkRuns,   \* hosting service: the check runs of the commit
    runLabels,   \* cluster: the check-run-id label of each run object
    pc,          \* per call: position in the code
    req,         \* per call: runevent, pacopts and statusOpts
    checkRunID,  \* per call: getOrUpdateCheckRunStatus's checkRunID
    res,         \* per call: getExistingCheckRunID's res.CheckRuns
    idx,         \* per call: position of the range loop over res.CheckRuns
    cand,        \* per call: canIUseCheckrunID's argument
    claimed,     \* per call: canIUseCheckrunID's return value
    calls,       \* per call: the external calls it has issued, in order
    err          \* per call: the error CreateStatus returned

vars ==
    <<Client, skippedRun, checkRuns, runLabels, pc, req, checkRunID, res, idx,
      cand, claimed, calls, err>>

shared == <<Client, skippedRun, checkRuns, runLabels>>

TypeOK ==
    /\ Client \in BOOLEAN
    /\ skippedRun.checkRunID \in Nat
    /\ skippedRun.mutex \in {0} \cup AllProcs
    /\ \A p \in AllProcs : checkRunID[p] \in Nat /\ idx[p] \in Nat

\* -------------------------------------------------------------- CheckRegistry
\* a mutex that grants the lock whoever holds it
MutexNeverHeld(mutex) == TRUE

\* sync.Mutex: Lock returns once no one holds the mutex
MutexFree(mutex) == mutex = 0

\* canIUseCheckrunID, line 87: v.skippedRun.mutex.Lock()
Lock(p) ==
    /\ pc[p] = "claim_lock"
    /\ MutexFree(skippedRun.mutex)
    /\ skippedRun' = [skippedRun EXCEPT !.mutex = p]
    /\ pc' = [pc EXCEPT ![p] = "claim_test"]
    /\ UNCHANGED <<Client, checkRuns, runLabels, req, checkRunID, res, idx,
                   cand, claimed, calls, err>>

\* a slot that every candidate may take
SlotAlwaysFree(id) == TRUE

\* line 90: the slot is free
SlotIsFree(id) == id = 0

\* a refusal that returns without the deferred Unlock
RefusedKeepsLock(id) == "claim_ret"

\* lines 88 and 94: return false runs the deferred Unlock
OnRefused(id) == "claim_unlock"

\* line 90: if v.skippedRun.checkRunID == 0; line 94: return false
TestSlot(p) ==
    /\ pc[p] = "claim_test"
    /\ IF SlotIsFree(skippedRun.checkRunID)
       THEN /\ pc' = [pc EXCEPT ![p] = "claim_set"]
            /\ UNCHANGED claimed
       ELSE /\ pc' = [pc EXCEPT ![p] = OnRefused(cand[p])]
            /\ claimed' = [claimed EXCEPT ![p] = FALSE]
    /\ UNCHANGED <<shared, req, checkRunID, res, idx, cand, calls, err>>

\* lines 91-92: v.skippedRun.checkRunID = *checkrunid; return true
SetSlot(p) ==
    /\ pc[p] = "claim_set"
    /\ skippedRun' = [skippedRun EXCEPT !.checkRunID = cand[p]]
    /\ claimed' = [claimed EXCEPT ![p] = TRUE]
    /\ pc' = [pc EXCEPT ![p] = "claim_unlock"]
    /\ UNCHANGED <<Client, checkRuns, runLabels, req, checkRunID, res, idx,
                   cand, calls, err>>

\* a return path that leaves the mutex with its holder
StillHeld(mutex) == mutex

\* sync.Mutex: Unlock leaves the mutex free
Released(mutex) == 0

\* line 88: defer v.skippedRun.mutex.Unlock(), run when the function returns
Unlock(p) ==
    /\ pc[p] = "claim_unlock"
    /\ skippedRun' = [skippedRun EXCEPT !.mutex = Released(skippedRun.mutex)]
    /\ pc' = [pc EXCEPT ![p] = "claim_ret"]
    /\ UNCHANGED <<Client, checkRuns, runLabels, req, checkRunID, res, idx,
                   cand, claimed, calls, err>>

canIUseCheckrunID(p) == Lock(p) \/ TestSlot(p) \/ SetSlot(p) \/ Unlock(p)

\* a Provider as constructed: no client calls yet, the slot empty
FreshLocals ==
    /\ req = [p \in AllProcs |-> NoRequest]
    /\ checkRunID = [p \in AllProcs |-> NilID]
    /\ res = [p \in AllProcs |-> <<>>]
    /\ idx = [p \in AllProcs |-> 0]
    /\ claimed = [p \in AllProcs |-> FALSE]
    /\ calls = [p \in AllProcs |-> <<>>]
    /\ err = [p \in AllProcs |-> NoError]

\* SpecClaim: n callers, each about to call canIUseCheckrunID with its own
\* check-run identifier (identifiers of the hosting service, so positive)
InitClaim ==
    /\ Client = TRUE
    /\ skippedRun = [checkRunID |-> 0, mutex |-> 0]
    /\ checkRuns = <<>>
    /\ runLabels = [n \in RunNames |-> NoLabel]
    /\ FreshLocals
    /\ \E n \in 1 .. MaxCallers :
         /\ pc = [p \in AllProcs |-> IF p <= n THEN "claim_lock" ELSE "off"]
         /\ \E f \in [1 .. n -> FirstCheckID .. FirstCheckID + MaxCallers] :
              /\ \A a, b \in 1 .. n : a # b => f[a] # f[b]
              /\ cand = [p \in AllProcs |-> IF p <= n THEN f[p] ELSE NilID]

NextClaim == \E p \in AllProcs : canIUseCheckrunID(p)

SpecClaim == InitClaim /\ [][NextClaim]_vars

\* ---------------------------------------------------------- ConclusionMapper
\* CreateStatus, lines 320-338: the title of the status
MappedTitle(r) ==
    IF r.Status = "in_progress" THEN "CI has Started"
    ELSE CASE r.Conclusion = "success" -> "Success"
           [] r.Conclusion = "failure" -> "Failed"
           [] r.Conclusion = "skipped" -> "Skipped"
           [] r.Conclusion = "neutral" -> "Unknown"
           [] OTHER -> r.Title

\* CreateStatus, lines 320-338: the summary before it is prefixed
MappedSummary(r) ==
    IF r.Status = "in_progress" THEN "is running."
    ELSE CASE r.Conclusion = "success" ->
                "has <b>successfully</b> validated your commit."
           [] r.Conclusion = "failure" -> "has <b>failed</b>."
           [] r.Conclusion = "skipped" -> SkippedSummary
           [] r.Conclusion = "neutral" ->
                "doesn't know what happened with this commit."
           [] OTHER -> ""

\* lines 340-344: fmt.Sprintf("%s%s %s", ApplicationName, onPr, Summary),
\* kept as its pieces
PrefixedSummary(r) ==
    <<ApplicationName,
      IF r.OriginalPipelineRunName # "" THEN "/" ELSE "",
      r.OriginalPipelineRunName, " ", MappedSummary(r)>>

\* getCheckName, lines 37-45, kept as its pieces
getCheckName(r) ==
    IF ApplicationName # ""
    THEN IF r.OriginalPipelineRunName = "" THEN <<ApplicationName>>
         ELSE <<ApplicationName, " / ", r.OriginalPipelineRunName>>
    ELSE <<r.OriginalPipelineRunName>>

\* ------------------------------------------------------------ StatusReconciler
ErrNoClient == <<"cannot set status on github no token or url set">>

ErrConvert == <<"api error: cannot convert checkrunid">>

\* the call appended to the log of p
Logged(p, call) == calls' = [calls EXCEPT ![p] = Append(@, call)]

\* CreateStatus returns e
Return(p, e) ==
    /\ err' = [err EXCEPT ![p] = e]
    /\ pc' = [pc EXCEPT ![p] = "done"]

\* a mode selection that takes installation id 0 for an installation
CheckRunAPIFromZero(r) == r.InstallationID >= 0

\* line 347: if runevent.InstallationID > 0
UseCheckRunAPI(r) == r.InstallationID > 0

\* a Provider that goes on without a client
ClientAssumed(client) == TRUE

\* line 316: v.Client == nil is false
HasClient(client) == client

\* CreateStatus, lines 315-353, up to the call of the mode's function.  The
\* caller passes its copy of the run object, read from the cluster.
CreateStatus(p, R) ==
    /\ pc[p] = "idle"
    /\ \E r \in R :
         LET run == IF r.PipelineRun.present
                    THEN [r.PipelineRun EXCEPT
                            !.label = runLabels[r.PipelineRunName]]
                    ELSE r.PipelineRun
             given == [r EXCEPT !.PipelineRun = run]
         IN  IF ~HasClient(Client)
             THEN /\ req' = [req EXCEPT ![p] = given]
                  /\ Return(p, ErrNoClient)
             ELSE /\ req' = [req EXCEPT ![p] =
                               [given EXCEPT !.Title = MappedTitle(r),
                                             !.Summary = PrefixedSummary(r)]]
                  /\ pc' = [pc EXCEPT ![p] =
                              IF UseCheckRunAPI(r) THEN "getOrUpdate"
                              ELSE "createStatusCommit"]
                  /\ UNCHANGED err
    /\ UNCHANGED <<shared, checkRunID, res, idx, cand, claimed, calls>>

\* a label lookup that never finds the label
LabelNeverFound(r) == FALSE

\* lines 188-191: found, the run object carries the check-run-id label
LabelFound(r) == r.PipelineRun.present /\ r.PipelineRun.label.found

\* getOrUpdateCheckRunStatus, lines 187-199
GetOrUpdateEntry(p) ==
    /\ pc[p] = "getOrUpdate"
    /\ IF LabelFound(req[p])
       THEN LET checkID == Atoi(req[p].PipelineRun.label.id)
            IN  IF ~checkID.ok
                THEN /\ Return(p, ErrConvert)
                     /\ UNCHANGED checkRunID
                ELSE /\ checkRunID' = [checkRunID EXCEPT ![p] = checkID.val]
                     /\ pc' = [pc EXCEPT ![p] = "update"]
                     /\ UNCHANGED err
       ELSE /\ pc' = [pc EXCEPT ![p] = "list"]
            /\ UNCHANGED <<checkRunID, err>>
    /\ UNCHANGED <<shared, req, res, idx, cand, claimed, calls>>

\* a caller that never writes the identifier back to the run object
AfterIDNoPatch(r) == "update"

\* lines 206-210: with the identifier known, patch the run object if there
\* is one, then go on to the update
AfterID(r) == IF r.PipelineRun.present THEN "patch" ELSE "update"

\* a caller that goes on to the update without a check run
OnNilSkipCreate(r) == "update"

\* lines 200-201: checkRunID == nil, so createCheckRunStatus is called
OnNilCheckRunID(r) == "create"

\* getExistingCheckRunID, lines 48-57, and line 200 of its caller, which
\* drops the error: a failed listing and an empty one both leave checkRunID nil
ListCheckRunsForRef(p) ==
    /\ pc[p] = "list"
    /\ \E ok \in BOOLEAN :
         /\ Logged(p, [NoCall EXCEPT !.op = "ListCheckRunsForRef", !.ok = ok])
         /\ IF ok /\ Len(checkRuns) # 0
            THEN /\ res' = [res EXCEPT ![p] = checkRuns]
                 /\ idx' = [idx EXCEPT ![p] = 1]
                 /\ pc' = [pc EXCEPT ![p] = "range"]
            ELSE /\ pc' = [pc EXCEPT ![p] = OnNilCheckRunID(req[p])]
                 /\ UNCHANGED <<res, idx>>
    /\ UNCHANGED <<shared, req, checkRunID, cand, claimed, err>>

\* strings.Contains(summary, "is skipping this commit") on the pieces
ContainsSkipPhrase(summary) ==
    \E i \in 1 .. Len(summary) : summary[i] = SkippedSummary

\* isSkippedCheckrun, lines 74-84
isSkippedCheckrun(run) ==
    run.Title = "Skipped" /\ ContainsSkipPhrase(run.Summary)

\* a comparison that finds no check run to be the run's
NeverSameRun(checkrun, r) == FALSE

\* line 66: *checkrun.ExternalID == status.PipelineRunName
SameRun(checkrun, r) == checkrun.ExternalID = r.PipelineRunName

\* lines 66-69 and 71: the check whose ExternalID is the run name is returned;
\* otherwise the loop goes on, and returns nil after the last check
MatchExternalID(p) ==
    LET checkrun == res[p][idx[p]]
    IN  IF SameRun(checkrun, req[p])
        THEN /\ checkRunID' = [checkRunID EXCEPT ![p] = checkrun.ID]
             /\ pc' = [pc EXCEPT ![p] = AfterID(req[p])]
             /\ UNCHANGED idx
        ELSE /\ idx' = [idx EXCEPT ![p] = @ + 1]
             /\ pc' = [pc EXCEPT ![p] =
                         IF idx[p] < Len(res[p]) THEN "range"
                         ELSE OnNilCheckRunID(req[p])]
             /\ UNCHANGED checkRunID

\* lines 59-62: one iteration, up to the call of canIUseCheckrunID
RangeCheckRuns(p) ==
    /\ pc[p] = "range"
    /\ IF isSkippedCheckrun(res[p][idx[p]])
       THEN /\ cand' = [cand EXCEPT ![p] = res[p][idx[p]].ID]
            /\ pc' = [pc EXCEPT ![p] = "claim_lock"]
            /\ UNCHANGED <<checkRunID, idx>>
       ELSE /\ MatchExternalID(p)
            /\ UNCHANGED cand
    /\ UNCHANGED <<shared, req, res, claimed, calls, err>>

\* lines 62-65: canIUseCheckrunID has returned
ClaimReturned(p) ==
    /\ pc[p] = "claim_ret"
    /\ IF claimed[p]
       THEN /\ checkRunID' = [checkRunID EXCEPT ![p] = res[p][idx[p]].ID]
            /\ pc' = [pc EXCEPT ![p] = AfterID(req[p])]
            /\ UNCHANGED idx
       ELSE MatchExternalID(p)
    /\ UNCHANGED <<shared, req, res, cand, claimed, calls, err>>

\* the hosting service numbers the check runs of the commit
NextCheckID == FirstCheckID + Len(checkRuns)

\* createCheckRunStatus, lines 97-113, and lines 201-205 of its caller
CreateCheckRun(p) ==
    /\ pc[p] = "create"
    /\ \E ok \in BOOLEAN :
         IF ok
         THEN /\ Logged(p, [NoCall EXCEPT !.op = "CreateCheckRun",
                                          !.id = NextCheckID,
                                          !.status = "in_progress",
                                          !.externalID = req[p].PipelineRunName])
              /\ checkRuns' = Append(checkRuns,
                     CheckRun(NextCheckID, req[p].PipelineRunName, "", <<>>))
              /\ checkRunID' = [checkRunID EXCEPT ![p] = NextCheckID]
              /\ pc' = [pc EXCEPT ![p] = AfterID(req[p])]
              /\ UNCHANGED err
         ELSE /\ Logged(p, [NoCall EXCEPT !.op = "CreateCheckRun",
                                          !.status = "in_progress",
                                          !.externalID = req[p].PipelineRunName,
                                          !.ok = FALSE])
              /\ Return(p, <<"CreateCheckRun", "failed">>)
              /\ UNCHANGED <<checkRuns, checkRunID>>
    /\ UNCHANGED <<Client, skippedRun, runLabels, req, res, idx, cand, claimed>>

\* a patch that persists the identifier after the one it was given
metadataPatchNextID(id) == FormatInt(id + 1)

\* metadataPatch, lines 262-273: the check-run-id label of the patch
metadataPatch(id) == FormatInt(id)

\* a patch whose failure is swallowed: the update follows all the same
PatchErrorSwallowed(ok) == [pc |-> "update", err |-> NoError]

\* lines 207-209: the error of the patch is returned, else the update follows
PatchResult(ok) ==
    IF ok THEN [pc |-> "update", err |-> NoError]
    ELSE [pc |-> "done", err |-> <<"PatchPipelineRun", "failed">>]

\* lines 206-210: action.PatchPipelineRun
PatchPipelineRun(p) ==
    /\ pc[p] = "patch"
    /\ \E ok \in BOOLEAN :
         LET label == metadataPatch(checkRunID[p])
         IN  /\ Logged(p, [NoCall EXCEPT !.op = "PatchPipelineRun",
                                         !.label = label, !.ok = ok])
             /\ runLabels' = IF ok
                             THEN [runLabels EXCEPT
                                     ![req[p].PipelineRunName] = Label(label)]
                             ELSE runLabels
             /\ pc' = [pc EXCEPT ![p] = PatchResult(ok).pc]
             /\ err' = [err EXCEPT ![p] = PatchResult(ok).err]
    /\ UNCHANGED <<Client, skippedRun, checkRuns, req, checkRunID, res, idx,
                   cand, claimed>>

\* isPipelineRunCancelledOrStopped, lines 252-260
isPipelineRunCancelledOrStopped(run) == run.present /\ run.cancelled

\* a completion time that goes with every update
AlwaysCompletedAt(r) == TRUE

\* lines 240-243: CompletedAt is set
UpdateCompletedAt(r) == r.Conclusion # "" /\ r.Conclusion # "pending"

\* an update in which the requested outcome wins over the cancellation
UpdateConclusionNoOverride(r) ==
    IF UpdateCompletedAt(r) THEN r.Conclusion
    ELSE IF isPipelineRunCancelledOrStopped(r.PipelineRun) THEN "cancelled"
    ELSE Nil

\* lines 240-246: opts.Conclusion
UpdateConclusion(r) ==
    IF isPipelineRunCancelledOrStopped(r.PipelineRun) THEN "cancelled"
    ELSE IF UpdateCompletedAt(r) THEN r.Conclusion
    ELSE Nil

\* the hosting service applies an update to the check run it names
Updated(runs, id, r) ==
    [i \in 1 .. Len(runs) |->
        IF runs[i].ID # id THEN runs[i]
        ELSE CheckRun(id,
                      IF r.PipelineRunName # "" THEN r.PipelineRunName
                      ELSE runs[i].ExternalID,
                      r.Title, r.Summary)]

\* lines 219-223: the annotations are asked for
WithAnnotations(r) == r.PipelineRun.present /\ r.ErrorDetection

\* lines 213-249: the options are built, with the annotations of the failed
\* tasks' logs, and UpdateCheckRun is called; its error is the result.  The
\* hosting service knows only the check runs it has.
UpdateCheckRun(p) ==
    /\ pc[p] = "update"
    /\ LET update == [NoCall EXCEPT !.op = "UpdateCheckRun",
                                    !.id = checkRunID[p],
                                    !.status = req[p].Status,
                                    !.externalID = req[p].PipelineRunName,
                                    !.conclusion = UpdateConclusion(req[p]),
                                    !.completedAt = UpdateCompletedAt(req[p]),
                                    !.extractor = WithAnnotations(req[p])]
           known == \E i \in 1 .. Len(checkRuns) :
                        checkRuns[i].ID = checkRunID[p]
       IN  \E ok \in {TRUE, FALSE},
              in \in IF WithAnnotations(req[p]) THEN LogInputs ELSE {NoLogInput} :
             /\ ok => known
             /\ Logged(p, [update EXCEPT
                    !.ok = ok,
                    !.consulted = update.extractor /\ LogSourceConsulted(in),
                    !.taskinfos = IF update.extractor /\ LogSourceConsulted(in)
                                  THEN in.taskinfos ELSE <<>>,
                    !.annotations = IF update.extractor
                                    THEN getFailuresMessageAsAnnotations(in)
                                    ELSE <<>>])
             /\ checkRuns' = IF ok
                             THEN Updated(checkRuns, checkRunID[p], req[p])
                             ELSE checkRuns
             /\ Return(p, IF ok THEN NoError ELSE <<"UpdateCheckRun", "failed">>)
    /\ UNCHANGED <<Client, skippedRun, runLabels, req, checkRunID, res, idx,
                   cand, claimed>>

\* a status API that is given the outcome as requested
CommitStateUncoerced(status, conclusion) == conclusion

\* createStatusCommit, lines 280-286: the state of the flat status
CommitState(status, conclusion) ==
    IF status = "in_progress" THEN "pending"
    ELSE IF conclusion \in {"skipped", "neutral"} THEN "success"
    ELSE conclusion

\* a comment on every completed status with a text, whatever the event
CommentOnAnyEvent(r) == r.Status = "completed" /\ r.Text # ""

\* line 300: a comment follows the status
WantsComment(r) ==
    r.Status = "completed" /\ r.Text # "" /\ r.EventType = "pull_request"

\* createStatusCommit, lines 277-299: Repositories.CreateStatus
RepoCreateStatus(p) ==
    /\ pc[p] = "createStatusCommit"
    /\ LET status == [NoCall EXCEPT !.op = "CreateStatus",
                                    !.conclusion = CommitState(req[p].Status,
                                                       req[p].Conclusion)]
       IN  \E ok \in BOOLEAN :
             /\ Logged(p, [status EXCEPT !.ok = ok])
             /\ IF ok /\ WantsComment(req[p])
                THEN /\ pc' = [pc EXCEPT ![p] = "comment"]
                     /\ UNCHANGED err
                ELSE Return(p, IF ok THEN NoError ELSE <<"CreateStatus", "failed">>)
    /\ UNCHANGED <<shared, req, checkRunID, res, idx, cand, claimed>>

\* line 304: fmt.Sprintf("%s<br>%s", status.Summary, status.Text)
CommentBody(r) == r.Summary \o <<"<br>", r.Text>>

\* createStatusCommit, lines 300-312: Issues.CreateComment
CreateComment(p) ==
    /\ pc[p] = "comment"
    /\ \E ok \in BOOLEAN :
         /\ Logged(p, [NoCall EXCEPT !.op = "CreateComment", !.ok = ok,
                                     !.body = CommentBody(req[p])])
         /\ Return(p, IF ok THEN NoError ELSE <<"CreateComment", "failed">>)
    /\ UNCHANGED <<shared, req, checkRunID, res, idx, cand, claimed>>

\* every step of a call after CreateStatus has taken its arguments
Step(p) ==
    \/ GetOrUpdateEntry(p)
    \/ ListCheckRunsForRef(p)
    \/ RangeCheckRuns(p)
    \/ canIUseCheckrunID(p)
    \/ ClaimReturned(p)
    \/ CreateCheckRun(p)
    \/ PatchPipelineRun(p)
    \/ UpdateCheckRun(p)
    \/ RepoCreateStatus(p)
    \/ CreateComment(p)

\* the hosting service, the cluster and the Provider when it is constructed
InitWorld ==
    /\ Client \in BOOLEAN
    /\ skippedRun = [checkRunID |-> 0, mutex |-> 0]
    /\ checkRuns \in InitialLists(MaxInitChecks)
    /\ FreshLocals
    /\ cand = [p \in AllProcs |-> NilID]

\* Spec: NProcs calls, every run object new
Init ==
    /\ InitWorld
    /\ runLabels = [n \in RunNames |-> NoLabel]
    /\ pc = [p \in AllProcs |-> IF p <= NProcs THEN "idle" ELSE "off"]

Next == \E p \in AllProcs : CreateStatus(p, Requests) \/ Step(p)

Spec == Init /\ [][Next]_vars

\* SpecFair: Spec with a fair scheduler and external calls that return: a
\* call that can take a step eventually takes one
SpecFair == Init /\ [][Next]_vars /\ \A p \in AllProcs : WF_vars(Step(p))

\* SpecSeq: one call; run-a may carry the label of an earlier call, or a
\* label that is no number
InitSeq ==
    /\ InitWorld
    /\ \E l \in {NoLabel, Label(FormatInt(FirstCheckID)), Label(<<"x">>)} :
         runLabels = [n \in RunNames |-> IF n = "run-a" THEN l ELSE NoLabel]
    /\ pc = [p \in AllProcs |-> IF p = 1 THEN "idle" ELSE "off"]

NextSeq == \E p \in AllProcs : CreateStatus(p, AllRequests) \/ Step(p)

SpecSeq == InitSeq /\ [][NextSeq]_vars

\* ------------------------------------------------------------------ claims
Callers == {p \in AllProcs : pc[p] # "off"}

Winners == {p \in Callers : pc[p] = "claim_ret" /\ claimed[p]}

\* C1: when all N concurrent calls of canIUseCheckrunID with pairwise distinct
\* candidates on a fresh registry have returned, exactly one has returned
\* true, all others false, and the recorded id is the winner's candidate.
C1_ExactlyOneClaim ==
    (\A p \in Callers : pc[p] = "claim_ret") =>
        /\ Cardinality(Winners) = 1
        /\ \A p \in Winners : skippedRun.checkRunID = cand[p]
        /\ \A p \in Callers \ Winners : ~claimed[p]

\* three calls have returned, and the last to take the lock is not the winner
C1_Witness ==
    /\ Cardinality(Callers) = 3
    /\ \A p \in Callers : pc[p] = "claim_ret"
    /\ claimed[2] /\ ~claimed[1] /\ ~claimed[3]
    /\ skippedRun.checkRunID = cand[2]

\* C2: once the skip-reuse slot holds a check identifier, no step of any
\* interleaving of reconciliations clears it or replaces it by another one.
C2_FirstWriterWins ==
    [][skippedRun.checkRunID # 0 =>
         skippedRun'.checkRunID = skippedRun.checkRunID]_vars

\* the slot is taken, and a later call holds the lock with another skipped
\* check as its candidate and is refused
C2_Witness ==
    /\ skippedRun.checkRunID # 0
    /\ \E p \in AllProcs :
         /\ pc[p] = "claim_unlock"
         /\ ~claimed[p]
         /\ cand[p] # skippedRun.checkRunID

\* the calls of p so far whose operation is op, by position
CallsOf(p, op) == {i \in 1 .. Len(calls[p]) : calls[p][i].op = op}

CheckRunOps ==
    {"ListCheckRunsForRef", "CreateCheckRun", "PatchPipelineRun",
     "UpdateCheckRun"}

CommitStatusOps == {"CreateStatus", "CreateComment"}

\* p has taken its arguments
Started(p) == pc[p] \notin {"off", "idle"}

\* the run object p was given carries the check-run-id label
Persisted(p) ==
    req[p].PipelineRun.present /\ req[p].PipelineRun.label.found

\* C3: in check-run mode with no persisted check identifier, when the
\* list-checks call fails the reconciliation returns that error and makes
\* no create-check, run-object patch or update-check call.
C3_DiscoveryErrorAborts ==
    \A p \in AllProcs :
        (\E i \in CallsOf(p, "ListCheckRunsForRef") : ~calls[p][i].ok) =>
            /\ CallsOf(p, "CreateCheckRun") = {}
            /\ CallsOf(p, "PatchPipelineRun") = {}
            /\ CallsOf(p, "UpdateCheckRun") = {}
            /\ pc[p] = "done" => err[p] # NoError

\* p reconciles a new run: a run object without the label, and a listing
\* that succeeded and found no check run on the commit
NewRunNoChecks(p) ==
    /\ Started(p) /\ req[p].InstallationID > 0
    /\ req[p].PipelineRun.present /\ ~req[p].PipelineRun.label.found
    /\ Len(calls[p]) >= 1
    /\ calls[p][1].op = "ListCheckRunsForRef" /\ calls[p][1].ok
    /\ res[p] = <<>>

\* C4: a reconciliation of a new run (run object without persisted check
\* identifier, discovery finds no check on the commit) issues exactly one
\* create-check call and, once that call has returned an identifier, after it
\* exactly one run-object patch call whose label is that identifier.
C4_CreateThenPatch ==
    \A p \in AllProcs :
        NewRunNoChecks(p) /\ pc[p] \in {"update", "done"} =>
            /\ CallsOf(p, "CreateCheckRun") = {2}
            /\ calls[p][2].ok =>
                 /\ CallsOf(p, "PatchPipelineRun") = {3}
                 /\ Atoi(calls[p][3].label) =
                        [ok |-> TRUE, val |-> calls[p][2].id]

\* a new run's reconciliation has returned without error after a create, a
\* patch carrying the created identifier, and the update
C4_Witness ==
    \E p \in AllProcs :
        /\ NewRunNoChecks(p) /\ pc[p] = "done" /\ err[p] = NoError
        /\ Len(calls[p]) = 4
        /\ calls[p][2].op = "CreateCheckRun"
        /\ calls[p][3].op = "PatchPipelineRun" /\ calls[p][3].ok
        /\ Len(calls[p][3].label) = 2 /\ calls[p][2].id >= 10

\* C5: when the run object carries a persisted check identifier, the
\* reconciliation makes no list-checks, create-check or patch call, and
\* exactly one update-check call, which targets the persisted identifier.
C5_PersistedIdFastPath ==
    \A p \in AllProcs :
        Started(p) /\ req[p].InstallationID > 0 /\ Persisted(p)
          /\ Atoi(req[p].PipelineRun.label.id).ok =>
            /\ \A i \in 1 .. Len(calls[p]) :
                 /\ calls[p][i].op = "UpdateCheckRun"
                 /\ calls[p][i].id = Atoi(req[p].PipelineRun.label.id).val
            /\ Len(calls[p]) <= 1
            /\ pc[p] = "done" => Len(calls[p]) = 1

\* a reconciliation given the label another reconciliation of the same run
\* has patched in has returned after its one update of that check
C5_Witness ==
    \E p, q \in AllProcs :
        /\ p # q /\ pc[p] = "done" /\ Persisted(p)
        /\ \E i \in CallsOf(q, "PatchPipelineRun") :
             calls[q][i].ok /\ calls[q][i].label = req[p].PipelineRun.label.id
        /\ Len(calls[p]) = 1 /\ calls[p][1].op = "UpdateCheckRun"
        /\ calls[p][1].ok /\ calls[p][1].id = checkRunID[q]

\* C6: in check-run mode, when the run is cancelled, gracefully cancelled or
\* gracefully stopped, the conclusion of the update-check call is "cancelled"
\* whatever outcome was requested.
C6_CancelledOverrides ==
    \A p \in AllProcs :
        \A i \in CallsOf(p, "UpdateCheckRun") :
            req[p].PipelineRun.present /\ req[p].PipelineRun.cancelled =>
                calls[p][i].conclusion = "cancelled"

\* a cancelled run reported as a success is submitted as cancelled
C6_Witness ==
    \E p \in AllProcs :
        /\ req[p].PipelineRun.cancelled /\ req[p].Conclusion = "success"
        /\ \E i \in CallsOf(p, "UpdateCheckRun") :
             calls[p][i].ok /\ calls[p][i].conclusion = "cancelled"

\* C7: in commit-status mode the submitted state is "pending" when the phase
\* is in_progress; otherwise "success" for the outcomes skipped and neutral,
\* and the outcome itself for any other.
C7_CommitStateCoercion ==
    \A p \in AllProcs :
        \A i \in CallsOf(p, "CreateStatus") :
            calls[p][i].conclusion =
                CASE req[p].Status = "in_progress" -> "pending"
                  [] req[p].Status # "in_progress"
                       /\ req[p].Conclusion = "skipped" -> "success"
                  [] req[p].Status # "in_progress"
                       /\ req[p].Conclusion = "neutral" -> "success"
                  [] OTHER -> req[p].Conclusion

\* a completed run with outcome skipped has been submitted as success
C7_Witness ==
    \E p \in AllProcs :
        /\ req[p].Status = "completed" /\ req[p].Conclusion = "skipped"
        /\ \E i \in CallsOf(p, "CreateStatus") :
             calls[p][i].ok /\ calls[p][i].conclusion = "success"

\* C8: a call with installationID > 0 issues only list-checks, create-check,
\* update-check and run-object patch calls; a call with installationID <= 0
\* issues only flat-status and comment calls and none of its steps changes
\* the skip-reuse slot.
C8_ModeSelection ==
    [][\A p \in AllProcs :
         pc'[p] \notin {"off", "idle"} =>
           /\ req'[p].InstallationID > 0 =>
                \A i \in 1 .. Len(calls'[p]) : calls'[p][i].op \in CheckRunOps
           /\ req'[p].InstallationID <= 0 =>
                /\ \A i \in 1 .. Len(calls'[p]) :
                     calls'[p][i].op \in CommitStatusOps
                /\ pc'[p] # pc[p] => skippedRun' = skippedRun]_vars

\* a call with installation id 0 has returned after a flat status and a
\* comment, the slot still empty
C8_Witness ==
    \E p \in AllProcs :
        /\ pc[p] = "done" /\ req[p].InstallationID = 0
        /\ Len(calls[p]) = 2
        /\ calls[p][1].op = "CreateStatus" /\ calls[p][2].op = "CreateComment"
        /\ skippedRun.checkRunID = 0

\* C9: without a client, every call returns the configuration error in its
\* first step and no step has an effect: no call to the hosting service or
\* the cluster is issued, and the check runs, the run objects' labels and the
\* skip-reuse slot stay as they are, whatever the run event and the request.
C9_NoClientNoEffects ==
    [][~Client =>
         /\ skippedRun' = skippedRun
         /\ runLabels' = runLabels
         /\ checkRuns' = checkRuns
         /\ \A p \in AllProcs :
              /\ calls'[p] = <<>>
              /\ pc'[p] # pc[p] =>
                   /\ pc[p] = "idle" /\ pc'[p] = "done"
                   /\ err'[p] = ErrNoClient]_vars

\* without a client, a check-run-mode report of a failure for a run that
\* carries a persisted identifier has returned the configuration error
C9_Witness ==
    /\ ~Client
    /\ \E p \in AllProcs :
         /\ pc[p] = "done" /\ err[p] = ErrNoClient
         /\ req[p].InstallationID > 0 /\ req[p].Conclusion = "failure"
         /\ Persisted(p)

FailingOps ==
    {"CreateCheckRun", "PatchPipelineRun", "UpdateCheckRun", "CreateStatus",
     "CreateComment"}

\* C10: a failed create-check, run-object patch, update-check, flat-status or
\* comment call is the last call of its reconciliation (it is not retried and
\* no later step runs), and the reconciliation returns that call's error.
C10_ErrorsPropagate ==
    \A p \in AllProcs :
        \A i \in 1 .. Len(calls[p]) :
            calls[p][i].op \in FailingOps /\ ~calls[p][i].ok =>
                /\ i = Len(calls[p])
                /\ CallsOf(p, calls[p][i].op) = {i}
                /\ pc[p] = "done"
                /\ err[p] = <<calls[p][i].op, "failed">>

\* one reconciliation has returned the error of its patch after a create,
\* another the error of its comment after a flat status
C10_Witness ==
    \E p, q \in AllProcs :
        /\ pc[p] = "done" /\ Len(calls[p]) = 3
        /\ calls[p][2].op = "CreateCheckRun" /\ calls[p][2].ok
        /\ calls[p][3].op = "PatchPipelineRun" /\ ~calls[p][3].ok
        /\ err[p] = <<"PatchPipelineRun", "failed">>
        /\ pc[q] = "done" /\ Len(calls[q]) = 2
        /\ calls[q][2].op = "CreateComment" /\ ~calls[q][2].ok
        /\ err[q] = <<"CreateComment", "failed">>

\* the identifiers of the check runs a sequence holds
IDsOf(runs) == {runs[i].ID : i \in 1 .. Len(runs)}

\* the discovery of p has succeeded and found no reusable check: none of the
\* listed check runs is a "Skipped" one or carries the run's name
DiscoveredNothing(p) ==
    /\ Started(p) /\ req[p].InstallationID > 0 /\ ~Persisted(p)
    /\ Len(calls[p]) >= 1
    /\ calls[p][1].op = "ListCheckRunsForRef" /\ calls[p][1].ok
    /\ \A i \in 1 .. Len(res[p]) :
         /\ ~isSkippedCheckrun(res[p][i])
         /\ res[p][i].ExternalID # req[p].PipelineRunName

\* C11: nothing excludes the discovery-then-create race.  Every check-run-mode
\* reconciliation without persisted identifier whose discovery found no
\* reusable check issues its own create-check call, whatever the other
\* reconciliations of the run have done; and two reconciliations whose creates
\* succeeded have created two distinct check runs of the commit.
C11_NoCreateExclusion ==
    /\ \A p \in AllProcs :
         DiscoveredNothing(p) /\ pc[p] \in {"patch", "update", "done"} =>
             CallsOf(p, "CreateCheckRun") = {2}
    /\ \A p, q \in AllProcs :
         \A i \in CallsOf(p, "CreateCheckRun"), j \in CallsOf(q, "CreateCheckRun") :
             p # q /\ calls[p][i].ok /\ calls[q][j].ok =>
                 /\ calls[p][i].id # calls[q][j].id
                 /\ {calls[p][i].id, calls[q][j].id} \subseteq IDsOf(checkRuns)

\* the race: two reconciliations of one run, neither with a persisted
\* identifier, have both found no reusable check and both created a check
\* run, and the commit carries two check runs with the run's name
C11_Witness ==
    \E p, q \in AllProcs :
        /\ p # q /\ req[p].PipelineRunName = req[q].PipelineRunName
        /\ req[p].PipelineRun.present /\ req[q].PipelineRun.present
        /\ DiscoveredNothing(p) /\ DiscoveredNothing(q)
        /\ calls[p][Len(calls[p])].op = "CreateCheckRun"
        /\ calls[q][Len(calls[q])].op = "CreateCheckRun"
        /\ calls[p][Len(calls[p])].ok /\ calls[q][Len(calls[q])].ok
        /\ Cardinality({i \in 1 .. Len(checkRuns) :
               checkRuns[i].ExternalID = req[p].PipelineRunName}) >= 2

\* the positions of the code at which p calls the hosting service or the
\* cluster
CallSites ==
    {"list", "create", "patch", "update", "createStatusCommit", "comment"}

\* the positions between Lock and Unlock of canIUseCheckrunID
LockedSection == {"claim_test", "claim_set", "claim_unlock"}

\* C12: the registry's lock is held only inside canIUseCheckrunID, between its
\* Lock and its Unlock: a reconciliation that is about to call the hosting
\* service or the cluster, or has such a call in flight, does not hold it.
C12_LockNotAcrossCalls ==
    \A p \in AllProcs :
        /\ skippedRun.mutex = p => pc[p] \in LockedSection
        /\ pc[p] \in CallSites => skippedRun.mutex # p

\* one reconciliation holds the lock for its compare-and-set while another
\* is at a call to the hosting service
C12_Witness ==
    \E p, q \in AllProcs :
        /\ skippedRun.mutex = p /\ pc[p] = "claim_set"
        /\ pc[q] \in {"create", "patch", "update"}

\* the skipped check runs canIUseCheckrunID has refused to p: those the range
\* loop has left behind, and the current one once the call has returned false
Rejected(p) ==
    {res[p][i].ID : i \in {j \in 1 .. Len(res[p]) :
        /\ isSkippedCheckrun(res[p][j])
        /\ \/ j < idx[p]
           \/ /\ j = idx[p] /\ ~claimed[p]
              /\ pc[p] \in {"claim_ret", "patch", "update", "done"}}}

\* C13: a check identifier canIUseCheckrunID has refused to a reconciliation
\* is not returned by its discovery and is not the target of its update.
C13_RejectedNeverReused ==
    \A p \in AllProcs :
        /\ checkRunID[p] \notin Rejected(p)
        /\ \A i \in CallsOf(p, "UpdateCheckRun") :
             calls[p][i].id \notin Rejected(p)

\* the update-check calls of p, as logged
UpdatesOf(p) == {calls[p][i] : i \in CallsOf(p, "UpdateCheckRun")}

\* C14: the annotation extractor is invoked, the failed-task log source
\* consulted and annotations attached to the update only when the outcome is
\* "failure" and diagnostics are enabled.
C14_AnnotationsOnlyOnFailure ==
    \A p \in AllProcs : \A u \in UpdatesOf(p) :
        u.extractor \/ u.consulted \/ u.annotations # <<>> =>
            req[p].Conclusion = "failure" /\ req[p].ErrorDetection

\* C15 as claimed: for a run that is not cancelled, the update carries a
\* completion timestamp and a conclusion exactly when the phase is "completed"
\* and the outcome is not "pending".
C15_CompletionIffCompletedPhase ==
    \A p \in AllProcs : \A u \in UpdatesOf(p) :
        ~isPipelineRunCancelledOrStopped(req[p].PipelineRun) =>
            LET finished == req[p].Status = "completed"
                            /\ req[p].Conclusion # "pending"
            IN  /\ u.completedAt <=> finished
                /\ u.conclusion # Nil <=> finished
                /\ finished => u.conclusion = req[p].Conclusion

\* C15: for a run that is not cancelled, the update carries a completion
\* timestamp and a conclusion exactly when the outcome is neither empty nor
\* "pending", whatever the phase; the conclusion is then the requested outcome.
C15_CompletionIffOutcomeSet ==
    \A p \in AllProcs : \A u \in UpdatesOf(p) :
        ~isPipelineRunCancelledOrStopped(req[p].PipelineRun) =>
            LET finished == req[p].Conclusion \notin {"", "pending"}
            IN  /\ u.completedAt <=> finished
                /\ u.conclusion # Nil <=> finished
                /\ finished => u.conclusion = req[p].Conclusion

\* an update of a run that is not cancelled, with phase "in_progress" and
\* outcome "success": it carries the completion time and the conclusion
C15_Witness ==
    \E p \in AllProcs : \E u \in UpdatesOf(p) :
        /\ ~isPipelineRunCancelledOrStopped(req[p].PipelineRun)
        /\ req[p].Status = "in_progress" /\ req[p].Conclusion = "success"
        /\ u.completedAt /\ u.conclusion = "success"

\* the discovery of p has succeeded and has listed a check run whose
\* ExternalID is the name of p's run
ListedOwnCheck(p) ==
    /\ Len(calls[p]) >= 1
    /\ calls[p][1].op = "ListCheckRunsForRef" /\ calls[p][1].ok
    /\ \E i \in 1 .. Len(res[p]) : res[p][i].ExternalID = req[p].PipelineRunName

\* C16: a reconciliation without persisted identifier whose discovery succeeds
\* and lists a check run carrying the run's name issues no create-check call,
\* and its update targets one of the listed check runs.  A create-check call
\* has status "in_progress" and the run's name as external-id, and is issued
\* only by a reconciliation whose discovery gave it no reusable check: no
\* "Skipped" check run claimed and none with the run's name listed.
C16_NoDuplicateWhenListed ==
    \A p \in AllProcs :
        /\ Started(p) /\ ~Persisted(p) /\ ListedOwnCheck(p) =>
              /\ pc[p] # "create"
              /\ CallsOf(p, "CreateCheckRun") = {}
              /\ \A u \in UpdatesOf(p) : u.id \in IDsOf(res[p])
        /\ \A i \in CallsOf(p, "CreateCheckRun") :
              /\ calls[p][i].status = "in_progress"
              /\ calls[p][i].externalID = req[p].PipelineRunName
              /\ ~Persisted(p) /\ ~claimed[p] /\ ~ListedOwnCheck(p)

\* a reconciliation without persisted identifier has found the run's own
\* check run, which is not a "Skipped" one, and has updated it
C16_Witness ==
    \E p \in AllProcs :
        /\ Started(p) /\ ~Persisted(p) /\ ListedOwnCheck(p) /\ ~claimed[p]
        /\ pc[p] = "done" /\ CallsOf(p, "CreateCheckRun") = {}
        /\ \E u \in UpdatesOf(p) : u.ok /\ u.id \in IDsOf(res[p])

\* C17: in commit-status mode a comment is posted exactly when the flat
\* status call has succeeded, the phase is "completed", the body text is not
\* empty and the event is a pull request; it is the call after the status
\* call, is made once, and its body is the summary followed by the body text.
\* No other path makes a comment call.
C17_CommentIffCompletedPullRequest ==
    \A p \in AllProcs :
        LET comments == CallsOf(p, "CreateComment")
            wanted   == /\ Started(p) /\ HasClient(Client)
                        /\ ~UseCheckRunAPI(req[p])
                        /\ CallsOf(p, "CreateStatus") = {1} /\ calls[p][1].ok
                        /\ req[p].Status = "completed" /\ req[p].Text # ""
                        /\ req[p].EventType = "pull_request"
        IN  /\ comments # {} => wanted
            /\ wanted /\ pc[p] = "done" => comments # {}
            /\ comments \subseteq {2}
            /\ \A i \in comments :
                 LET body == calls[p][i].body
                     n    == Len(req[p].Summary)
                 IN  /\ Len(body) = n + 2
                     /\ SubSeq(body, 1, n) = req[p].Summary
                     /\ body[n + 2] = req[p].Text

\* a completed status with a text, for a pull request, has been followed by
\* its comment
C17_Witness ==
    \E p \in AllProcs :
        /\ pc[p] = "done" /\ ~UseCheckRunAPI(req[p])
        /\ Len(calls[p]) = 2
        /\ calls[p][1].op = "CreateStatus" /\ calls[p][1].ok
        /\ calls[p][2].op = "CreateComment" /\ calls[p][2].ok
        /\ calls[p][2].body[Len(calls[p][2].body)] = "log"

\* C18: every annotation attached to an update has a start line of at least
\* 1 and an end line equal to it, whatever the "line" groups of the matched
\* log lines held.
C18_LinesArePositive ==
    \A p \in AllProcs : \A u \in UpdatesOf(p) :
        \A k \in 1 .. Len(u.annotations) :
            /\ u.annotations[k].StartLine >= 1
            /\ u.annotations[k].EndLine = u.annotations[k].StartLine

\* the identifiers p can have obtained before its update: the one parsed from
\* the persisted label, else the one its create call returned, else one of
\* those its discovery listed
ObtainedIDs(p) ==
    IF Persisted(p) THEN {Atoi(req[p].PipelineRun.label.id).val}
    ELSE IF \E i \in CallsOf(p, "CreateCheckRun") : calls[p][i].ok
         THEN {calls[p][i].id : i \in CallsOf(p, "CreateCheckRun")}
         ELSE IDsOf(res[p])

\* C19: the identifier an update-check call targets is defined and is the one
\* the reconciliation obtained before it, from the persisted label, from
\* discovery or from its create call; a patch of the run object precedes the
\* update and persists the same identifier.
C19_UpdateTargetsObtainedID ==
    \A p \in AllProcs :
        /\ \A i \in CallsOf(p, "UpdateCheckRun") :
             /\ calls[p][i].id # NilID
             /\ calls[p][i].id \in ObtainedIDs(p)
             /\ \A j \in CallsOf(p, "PatchPipelineRun") :
                  /\ j < i
                  /\ Atoi(calls[p][j].label) = [ok |-> TRUE, val |-> calls[p][i].id]
        /\ \A j \in CallsOf(p, "PatchPipelineRun") :
             /\ Atoi(calls[p][j].label).ok
             /\ Atoi(calls[p][j].label).val \in ObtainedIDs(p) \ {NilID}

\* a reconciliation has created a check run, persisted its identifier and
\* updated it, in that order
C19_Witness ==
    \E p \in AllProcs :
        /\ Len(calls[p]) = 4 /\ pc[p] = "done"
        /\ calls[p][2].op = "CreateCheckRun" /\ calls[p][2].ok
        /\ calls[p][3].op = "PatchPipelineRun" /\ calls[p][3].ok
        /\ calls[p][4].op = "UpdateCheckRun"
        /\ calls[p][4].id = calls[p][2].id
        /\ Atoi(calls[p][3].label).val = calls[p][2].id

\* C20: with a fair scheduler and external calls that return, every started
\* CreateStatus call returns.  The registry's lock is free again whenever its
\* holder has left canIUseCheckrunID, and a call that waits for the lock
\* waits for a holder that can go on to release it: no call is stuck.
C20_EveryCallReturns ==
    /\ \A p \in AllProcs : Started(p) ~> pc[p] = "done"
    /\ [](\A p \in AllProcs :
            /\ pc[p] \notin LockedSection => skippedRun.mutex # p
            /\ Started(p) /\ pc[p] # "done" =>
                 \E q \in AllProcs : ENABLED Step(q))

\* two calls have returned after one had to wait for the lock the other held
\* and was then refused the check run
C20_Witness ==
    \E p, q \in AllProcs :
        /\ p # q /\ pc[p] = "done" /\ pc[q] = "done"
        /\ cand[p] # NilID /\ cand[q] = cand[p]
        /\ claimed[q] /\ ~claimed[p]
        /\ skippedRun.mutex = 0

====
